---- MODULE Spec2Model ----
(***************************************************************************)
(* Model of index.js of the "Clean Code in JS" write-up: a literal list of *)
(* user records is filtered by an age threshold and the loans of the kept  *)
(* records are summed and printed.  Array.prototype.filter and             *)
(* Array.prototype.reduce are unfolded into one step per visited element.  *)
(* The README snippets that show the same computation are operators.       *)
(* The other examples of the write-up (getCashback, the post-payment       *)
(* functions, the mutation example, sendSomeData) are state machines of    *)
(* their own, each with its own specification; an example that is not the  *)
(* one a specification runs stays idle in it.                              *)
(***************************************************************************)
EXTENDS Integers, Sequences, FiniteSets, TLC

VARIABLES users, threshold, pc, k, kept, total, totalLoans, stdout, outputs

scriptVars ==
  <<users, threshold, pc, k, kept, total, totalLoans, stdout, outputs>>

\* getCashback: the three flags it reads, what each handler returns, the
\* position in the function, the index of the condition under test, the
\* local "result" of the if/else-if version, and per version the handlers
\* it invoked and the value it returned
VARIABLES isSecure, isUnsecure, isOldScheme, cashbacks,
          cbPc, cbStage, result, cbCalls, cbReturn

cashbackVars ==
  <<isSecure, isUnsecure, isOldScheme, cashbacks,
    cbPc, cbStage, result, cbCalls, cbReturn>>

\* the post-payment functions: which of the three is called, its arguments,
\* its position, the state and argument of each service call, the error a
\* rejected call carries, and the state of the promise the function returned
VARIABLES payVersion, loanArg, amountArg, lenderIdArg, payPc,
          closeLoan, closeLoanArg, closeLoanError,
          createNewLoan, createNewLoanArgs, createNewLoanError,
          payOutcome, payError

paymentVars ==
  <<payVersion, loanArg, amountArg, lenderIdArg, payPc,
    closeLoan, closeLoanArg, closeLoanError,
    createNewLoan, createNewLoanArgs, createNewLoanError,
    payOutcome, payError>>

\* the mutation example: the loan object, its value when it was passed to
\* printLoanInterestForLenders, the position in that function and the lines
\* written to the console
VARIABLES loan, loanPassed, mutPc, console

mutationVars == <<loan, loanPassed, mutPc, console>>

\* sendSomeData: which of the three versions is called, its arguments, its
\* position, the request object under construction, the requests passed
\* to LoanService.update and the state of that call
VARIABLES sendVersion, oldLoan, newLoan, newscheme, sendPc,
          request, updateCalls, updateStatus

sendVars ==
  <<sendVersion, oldLoan, newLoan, newscheme, sendPc,
    request, updateCalls, updateStatus>>

readmeVars == <<cashbackVars, paymentVars, mutationVars, sendVars>>

vars == <<scriptVars, readmeVars>>

----------------------------------------------------------------------------
(* Bounds of the explored inputs *)

MaxLen == 2          \* longest generated users list
MaxLoan == 1         \* generated loans range over -1..MaxLoan
MaxThreshold == 0    \* generated thresholds range over 0..MaxThreshold
MaxRuns == 2         \* evaluations of the script in one behaviour
MaxCashback == 1     \* handlers return a value in 0..MaxCashback
MaxId == 2           \* loan ids and lender ids range over 1..MaxId
MaxAmount == 1       \* payment amounts range over 1..MaxAmount
MaxUnits == 2        \* loan amounts range over 2000 * (0..MaxUnits)
MaxRate == 2         \* interest rates range over 1..MaxRate
MaxTenure == 2       \* tenures range over 1..MaxTenure
MaxWeight == 1       \* net weights range over -1..MaxWeight

----------------------------------------------------------------------------
(* An example that a specification does not run *)

Versions == {"Bad", "Better"}

CashbackIdle ==
  /\ isSecure = FALSE
  /\ isUnsecure = FALSE
  /\ isOldScheme = FALSE
  /\ cashbacks = << >>
  /\ cbPc = "idle"
  /\ cbStage = 0
  /\ result = << >>
  /\ cbCalls = [v \in Versions |-> << >>]
  /\ cbReturn = [v \in Versions |-> << >>]

NoLoan == [loanId |-> 0, lenderId |-> 0]

PaymentIdle ==
  /\ payVersion = "none"
  /\ loanArg = NoLoan
  /\ amountArg = 0
  /\ lenderIdArg = 0
  /\ payPc = "idle"
  /\ closeLoan = "notcalled"
  /\ closeLoanArg = << >>
  /\ closeLoanError = ""
  /\ createNewLoan = "notcalled"
  /\ createNewLoanArgs = << >>
  /\ createNewLoanError = ""
  /\ payOutcome = "pending"
  /\ payError = ""

NoLoanObject == [loanAmount |-> 0, interestRate |-> 0, tenure |-> 0]

MutationIdle ==
  /\ loan = NoLoanObject
  /\ loanPassed = NoLoanObject
  /\ mutPc = "idle"
  /\ console = << >>

\* an object without properties
EmptyObject == [f \in {} |-> f]

SendIdle ==
  /\ sendVersion = "none"
  /\ oldLoan = EmptyObject
  /\ newLoan = EmptyObject
  /\ newscheme = EmptyObject
  /\ sendPc = "idle"
  /\ request = EmptyObject
  /\ updateCalls = << >>
  /\ updateStatus = "notcalled"

ReadmeIdle == CashbackIdle /\ PaymentIdle /\ MutationIdle /\ SendIdle

----------------------------------------------------------------------------
(* index.js, the data *)

MAX_ELIGIBILITY_AGE == 100

LiteralUsers ==
  << [name |-> "Alice", age |-> 30, loans |-> 2],
     [name |-> "Bob", age |-> 29, loans |-> 4],
     [name |-> "Dragon", age |-> 1000, loans |-> 40] >>

Thresholds == {MAX_ELIGIBILITY_AGE} \cup (0..MaxThreshold)

Ages == {t + d : t \in Thresholds, d \in {-1, 0, 1}}

Loans == -1..MaxLoan

Records ==
  [name : {"Eve"}, age : Ages, loans : Loans]

InputLists ==
  {LiteralUsers} \cup UNION {[1..n -> Records] : n \in 0..MaxLen}

\* the value of an array read outside its bounds
Undefined == [undefined |-> TRUE]

At(a, i) == IF i \in DOMAIN a THEN a[i] ELSE Undefined

\* the builtin iterations visit the indices below the array's length
HasNext_off(a, i) == i <= Len(a) + 1

HasNext(a, i) == i <= Len(a)

----------------------------------------------------------------------------
(* index.js, the callbacks *)

filterCallback_le(user, T) == user.age <= T

filterCallback_loans(user, T) == user.loans < T

\* (user) => user.age < MAX_ELIGIBILITY_AGE
filterCallback(user, T) == user.age < T

reduceCallback_age(t, user) == t + user.age

\* (total, user) => total + user.loans
reduceCallback(t, user) == t + user.loans

----------------------------------------------------------------------------
(* index.js, the run *)

ScriptIdle ==
  /\ users = LiteralUsers
  /\ threshold = MAX_ELIGIBILITY_AGE
  /\ pc = "idle"
  /\ k = 1
  /\ kept = << >>
  /\ total = 0
  /\ totalLoans = << >>
  /\ stdout = << >>
  /\ outputs = << >>

Init ==
  /\ users \in InputLists
  /\ threshold \in Thresholds
  /\ pc = "filter"
  /\ k = 1
  /\ kept = << >>
  /\ total = 0
  /\ totalLoans = << >>
  /\ stdout = << >>
  /\ outputs = << >>
  /\ ReadmeIdle

FilterStep_splice ==
  /\ pc = "filter"
  /\ HasNext(users, k)
  /\ LET user == At(users, k) IN
       IF user = Undefined
       THEN pc' = "error" /\ UNCHANGED <<users, k, kept>>
       ELSE IF filterCallback(user, threshold)
            THEN /\ kept' = Append(kept, user)
                 /\ k' = k + 1
                 /\ UNCHANGED <<users, pc>>
            ELSE /\ users' = [j \in 1..(Len(users) - 1) |->
                                IF j < k THEN users[j] ELSE users[j + 1]]
                 /\ UNCHANGED <<kept, k, pc>>
  /\ UNCHANGED <<threshold, total, totalLoans, stdout, outputs>>
  /\ UNCHANGED readmeVars

\* users.filter(...): one element is tested, and appended to the new array
\* when the callback accepts it
FilterStep ==
  /\ pc = "filter"
  /\ HasNext(users, k)
  /\ LET user == At(users, k) IN
       IF user = Undefined
       THEN pc' = "error" /\ UNCHANGED <<k, kept>>
       ELSE /\ kept' = IF filterCallback(user, threshold)
                       THEN Append(kept, user) ELSE kept
            /\ k' = k + 1
            /\ UNCHANGED pc
  /\ UNCHANGED <<users, threshold, total, totalLoans, stdout, outputs>>
  /\ UNCHANGED readmeVars

FilterDone_noInitial ==
  /\ pc = "filter"
  /\ ~HasNext(users, k)
  /\ pc' = "reduce"
  /\ k' = 1
  /\ UNCHANGED <<users, threshold, kept, total, totalLoans, stdout, outputs>>
  /\ UNCHANGED readmeVars

\* filter returns; .reduce(..., 0) starts with the accumulator at 0
FilterDone ==
  /\ pc = "filter"
  /\ ~HasNext(users, k)
  /\ pc' = "reduce"
  /\ k' = 1
  /\ total' = 0
  /\ UNCHANGED <<users, threshold, kept, totalLoans, stdout, outputs>>
  /\ UNCHANGED readmeVars

\* reduce: the callback folds one kept element into the accumulator
ReduceStep ==
  /\ pc = "reduce"
  /\ HasNext(kept, k)
  /\ LET user == At(kept, k) IN
       IF user = Undefined
       THEN pc' = "error" /\ UNCHANGED <<k, total>>
       ELSE /\ total' = reduceCallback(total, user)
            /\ k' = k + 1
            /\ UNCHANGED pc
  /\ UNCHANGED <<users, threshold, kept, totalLoans, stdout, outputs>>
  /\ UNCHANGED readmeVars

\* reduce returns; const totalLoans is bound to the accumulator
ReduceDone ==
  /\ pc = "reduce"
  /\ ~HasNext(kept, k)
  /\ totalLoans' = <<total>>
  /\ pc' = "print"
  /\ UNCHANGED <<users, threshold, k, kept, total, stdout, outputs>>
  /\ UNCHANGED readmeVars

ConsoleLog_twice ==
  /\ pc = "print"
  /\ stdout' = Append(stdout, totalLoans[1])
  /\ pc' = IF stdout = << >> THEN "print" ELSE "done"
  /\ UNCHANGED <<users, threshold, k, kept, total, totalLoans, outputs>>
  /\ UNCHANGED readmeVars

\* console.log(totalLoans)
ConsoleLog ==
  /\ pc = "print"
  /\ stdout' = Append(stdout, totalLoans[1])
  /\ pc' = "done"
  /\ UNCHANGED <<users, threshold, k, kept, total, totalLoans, outputs>>
  /\ UNCHANGED readmeVars

\* the script is evaluated again with the same literals: the output of the
\* finished run is kept aside, the bindings are created anew
Rerun ==
  /\ pc = "done"
  /\ Len(outputs) + 1 < MaxRuns
  /\ outputs' = Append(outputs, stdout)
  /\ pc' = "filter"
  /\ k' = 1
  /\ kept' = << >>
  /\ totalLoans' = << >>
  /\ stdout' = << >>
  /\ UNCHANGED <<users, threshold, total>>
  /\ UNCHANGED readmeVars

Next ==
  \/ FilterStep
  \/ FilterDone
  \/ ReduceStep
  \/ ReduceDone
  \/ ConsoleLog
  \/ Rerun

Spec == Init /\ [][Next]_vars

\* the script runs to completion: no step of it waits on anything
FairSpec == Spec /\ WF_vars(Next)

----------------------------------------------------------------------------
(* README.md, the snippets that show the same computation *)

RECURSIVE reduceLoans(_, _)
\* seq.reduce((total, user) => total + user.loans, acc)
reduceLoans(seq, acc) ==
  IF seq = << >> THEN acc
  ELSE reduceLoans(Tail(seq), acc + Head(seq).loans)

ageBelow100(user) == user.age < 100

ageBelowMax(user) == user.age < MAX_ELIGIBILITY_AGE

\* "Bad": users.filter((user) => user.age < 100).reduce(..., 0)
totalLoansBad(us) == reduceLoans(SelectSeq(us, ageBelow100), 0)

\* "Better": the literal is replaced by MAX_ELIGIBILITY_AGE
totalLoansBetter(us) == reduceLoans(SelectSeq(us, ageBelowMax), 0)

\* "Even Better": the result is named totalLoansOfEligibleUsers
totalLoansOfEligibleUsers(us) == reduceLoans(SelectSeq(us, ageBelowMax), 0)

----------------------------------------------------------------------------
(* Properties *)

Printed == pc = "done"

FirstRun == outputs = << >>

Filtered == pc \in {"reduce", "print", "done"}

IsLiteralRun == users = LiteralUsers /\ threshold = MAX_ELIGIBILITY_AGE

Eligible(us, T) == {i \in DOMAIN us : us[i].age < T}

RECURSIVE SumOver(_, _)
\* the sum of the loans field over the positions in I
SumOver(us, I) ==
  IF I = {} THEN 0
  ELSE LET i == CHOOSE j \in I : TRUE
       IN us[i].loans + SumOver(us, I \ {i})

\* C1: once the run has bound totalLoans, its value is the sum of loans over
\* exactly the positions of users whose age is below the threshold: each such
\* record counts once and no other record counts.
C1_FilteredSum ==
  totalLoans # << >> =>
    totalLoans[1] = SumOver(users, Eligible(users, threshold))

\* a finished run over a list that mixes eligible and ineligible records
C1_Witness ==
  /\ Printed
  /\ Eligible(users, threshold) # {}
  /\ Eligible(users, threshold) # DOMAIN users
  /\ Cardinality(Eligible(users, threshold)) >= 2
  /\ totalLoans[1] # 0

\* C2: the run over the literal list with threshold 100 ends with 6 printed.
C2_LiteralPrintsSix ==
  (IsLiteralRun /\ Printed) => stdout = <<6>>

C2_Witness == IsLiteralRun /\ Printed /\ FirstRun /\ stdout = <<6>>

\* C3: for the literal list and threshold 100 the array returned by filter is
\* the first two records, Alice then Bob, without the third one, Dragon.
C3_LiteralFilter ==
  (IsLiteralRun /\ Filtered) =>
    /\ kept = <<LiteralUsers[1], LiteralUsers[2]>>
    /\ \A i \in DOMAIN kept : kept[i] # LiteralUsers[3]

C3_Witness ==
  IsLiteralRun /\ pc = "reduce" /\ k = 1 /\ Len(kept) = 2 /\ kept[1].name = "Alice"

\* C4: the comparison is strict: after the filter no kept record has its age
\* equal to the threshold, every record aged threshold - 1 is kept as often
\* as it occurs, and a one-record list contributes 0 when its age is the
\* threshold and its loans when its age is threshold - 1.
C4_StrictComparison ==
  /\ Filtered =>
       /\ \A i \in DOMAIN kept : kept[i].age # threshold
       /\ \A i \in DOMAIN users :
            users[i].age = threshold - 1 =>
              Cardinality({j \in DOMAIN kept : kept[j] = users[i]})
                = Cardinality({j \in DOMAIN users : users[j] = users[i]})
  /\ (Printed /\ Len(users) = 1) =>
       /\ users[1].age = threshold => totalLoans[1] = 0
       /\ users[1].age = threshold - 1 => totalLoans[1] = users[1].loans

\* a finished run at threshold 100 over a record aged 100 with loans and a
\* record aged 99
C4_Witness ==
  /\ Printed
  /\ threshold = MAX_ELIGIBILITY_AGE
  /\ Len(users) = 2
  /\ users[1].age = threshold /\ users[1].loans # 0
  /\ users[2].age = threshold - 1
  /\ kept = <<users[2]>>

\* C5: when no record of the list has its age below the threshold, the empty
\* list included, the result is 0.
C5_EmptySum ==
  (totalLoans # << >> /\ Eligible(users, threshold) = {}) => totalLoans[1] = 0

C5_Witness ==
  /\ Printed
  /\ Len(users) >= 2
  /\ Eligible(users, threshold) = {}
  /\ \E i \in DOMAIN users : users[i].loans # 0
  /\ stdout = <<0>>

\* C6: a second evaluation of the script over the same list and threshold
\* prints what the first evaluation printed.
C6_SameOutputAgain ==
  (Printed /\ outputs # << >>) => stdout = outputs[Len(outputs)]

C6_Witness ==
  Printed /\ Len(outputs) = 1 /\ stdout # <<0>> /\ Len(kept) >= 2

\* C7: no step of the filter, the reduce or the print changes the users
\* list: its length, its order and every field of every record stay as the
\* literal set them.
C7_UsersNeverMutated == [][users' = users]_vars

C7_Witness ==
  IsLiteralRun /\ Printed /\ Len(kept) < Len(users) /\ users = LiteralUsers

\* C8: a run writes exactly one integer to standard output: nothing is
\* written while the filter or the reduce is under way, and after the print
\* the output holds that one value, the total that reduce returned.
C8_SingleOutput ==
  /\ Len(stdout) <= 1
  /\ (pc \in {"filter", "reduce", "print"}) => stdout = << >>
  /\ Printed =>
       /\ Len(stdout) = 1
       /\ stdout[1] \in Int
       /\ Len(kept) = Cardinality(Eligible(users, threshold))
       /\ k = Len(kept) + 1
       /\ totalLoans = stdout
       /\ stdout[1] = total

C8_Witness == Printed /\ Len(stdout) = 1 /\ Len(users) = MaxLen /\ Len(kept) >= 1

\* C9: the run never reaches an error state and always ends printed.
C9_NoErrorTerminates ==
  /\ [](pc # "error")
  /\ <>[](Printed /\ Len(stdout) = 1)

C9_Witness == Printed /\ ~FirstRun /\ Len(users) = MaxLen /\ Len(kept) = MaxLen

\* C10: with the threshold of index.js, the three README snippets give, for
\* every list, the value the run of index.js binds to totalLoans.
C10_SnippetsAgree ==
  (totalLoans # << >> /\ threshold = MAX_ELIGIBILITY_AGE) =>
    /\ totalLoansBad(users) = totalLoans[1]
    /\ totalLoansBetter(users) = totalLoans[1]
    /\ totalLoansOfEligibleUsers(users) = totalLoans[1]

C10_Witness ==
  /\ Printed
  /\ threshold = MAX_ELIGIBILITY_AGE
  /\ \E i \in DOMAIN users : users[i].age = 100 /\ users[i].loans # 0
  /\ \E i \in DOMAIN users : users[i].age = 99 /\ users[i].loans # 0
  /\ totalLoansBad(users) # 0

----------------------------------------------------------------------------
(* getCashback, the if/else-if version and the guard-clause version *)

Handlers ==
  {"getSecureCashback", "getUnSecureCashback",
   "getCashbackForOldScheme", "getNormalCashback"}

\* the value of the global flag a condition names
Flag(name) ==
  CASE name = "isSecure" -> isSecure
    [] name = "isUnsecure" -> isUnsecure
    [] name = "isOldScheme" -> isOldScheme

\* Bad: if (isSecure) ... else if (isUnsecure) ... else if (isOldScheme) ...
BadChain ==
  << [flag |-> "isSecure", handler |-> "getSecureCashback"],
     [flag |-> "isUnsecure", handler |-> "getUnSecureCashback"],
     [flag |-> "isOldScheme", handler |-> "getCashbackForOldScheme"] >>

\* Bad: the final else
BadElse == "getNormalCashback"

BetterGuards_swapped ==
  << [flag |-> "isUnsecure", handler |-> "getUnSecureCashback"],
     [flag |-> "isSecure", handler |-> "getSecureCashback"],
     [flag |-> "isOldScheme", handler |-> "getCashbackForOldScheme"] >>

\* Better: if (isSecure) return ...; if (isUnsecure) return ...; ...
BetterGuards ==
  << [flag |-> "isSecure", handler |-> "getSecureCashback"],
     [flag |-> "isUnsecure", handler |-> "getUnSecureCashback"],
     [flag |-> "isOldScheme", handler |-> "getCashbackForOldScheme"] >>

\* Better: the return that follows the guards
BetterFallthrough == "getNormalCashback"

InitCashback ==
  /\ isSecure \in BOOLEAN
  /\ isUnsecure \in BOOLEAN
  /\ isOldScheme \in BOOLEAN
  /\ cashbacks \in [Handlers -> 0..MaxCashback]
  /\ cbPc = "bad_test"
  /\ cbStage = 1
  /\ result = << >>
  /\ cbCalls = [v \in Versions |-> << >>]
  /\ cbReturn = [v \in Versions |-> << >>]
  /\ ScriptIdle
  /\ PaymentIdle
  /\ MutationIdle
  /\ SendIdle

\* Bad: one condition of the chain is tested; the branch taken invokes its
\* handler and assigns result, the else branch is taken after the last test
BadBranch ==
  /\ cbPc = "bad_test"
  /\ IF cbStage > Len(BadChain) \/ Flag(BadChain[cbStage].flag)
     THEN LET h == IF cbStage > Len(BadChain) THEN BadElse
                   ELSE BadChain[cbStage].handler
          IN /\ cbCalls' = [cbCalls EXCEPT !["Bad"] = Append(@, h)]
             /\ result' = <<cashbacks[h]>>
             /\ cbPc' = "bad_return"
             /\ UNCHANGED cbStage
     ELSE /\ cbStage' = cbStage + 1
          /\ UNCHANGED <<cbPc, result, cbCalls>>
  /\ UNCHANGED <<isSecure, isUnsecure, isOldScheme, cashbacks, cbReturn>>
  /\ UNCHANGED <<scriptVars, paymentVars, mutationVars, sendVars>>

\* Bad: return result; the guard-clause version is called next
BadReturn ==
  /\ cbPc = "bad_return"
  /\ cbReturn' = [cbReturn EXCEPT !["Bad"] = result]
  /\ cbPc' = "better_test"
  /\ cbStage' = 1
  /\ UNCHANGED <<isSecure, isUnsecure, isOldScheme, cashbacks, result, cbCalls>>
  /\ UNCHANGED <<scriptVars, paymentVars, mutationVars, sendVars>>

\* Better: one guard is tested; a guard that holds invokes its handler and
\* returns its value at once, the last return follows the guards
BetterGuard ==
  /\ cbPc = "better_test"
  /\ IF cbStage > Len(BetterGuards) \/ Flag(BetterGuards[cbStage].flag)
     THEN LET h == IF cbStage > Len(BetterGuards) THEN BetterFallthrough
                   ELSE BetterGuards[cbStage].handler
          IN /\ cbCalls' = [cbCalls EXCEPT !["Better"] = Append(@, h)]
             /\ cbReturn' = [cbReturn EXCEPT !["Better"] = <<cashbacks[h]>>]
             /\ cbPc' = "done"
             /\ UNCHANGED cbStage
     ELSE /\ cbStage' = cbStage + 1
          /\ UNCHANGED <<cbPc, cbCalls, cbReturn>>
  /\ UNCHANGED <<isSecure, isUnsecure, isOldScheme, cashbacks, result>>
  /\ UNCHANGED <<scriptVars, paymentVars, mutationVars, sendVars>>

NextCashback ==
  \/ BadBranch
  \/ BadReturn
  \/ BetterGuard

SpecCashback == InitCashback /\ [][NextCashback]_vars

\* the handler the stated priority selects
PriorityHandler ==
  IF isSecure THEN "getSecureCashback"
  ELSE IF isUnsecure THEN "getUnSecureCashback"
  ELSE IF isOldScheme THEN "getCashbackForOldScheme"
  ELSE "getNormalCashback"

\* C11: for every combination of the three flags, neither version ever has
\* invoked more than one handler, and once both have returned each has
\* invoked exactly one handler, the same one, the one the priority isSecure,
\* isUnsecure, isOldScheme, otherwise getNormalCashback selects, and has
\* returned that handler's value.
C11_CashbackEquivalent ==
  /\ \A v \in Versions : Len(cbCalls[v]) <= 1
  /\ cbPc \in {"better_test", "done"} =>
       /\ cbCalls["Bad"] = <<PriorityHandler>>
       /\ cbReturn["Bad"] = <<cashbacks[PriorityHandler]>>
  /\ cbPc = "done" =>
       /\ cbCalls["Better"] = <<PriorityHandler>>
       /\ cbCalls["Better"] = cbCalls["Bad"]
       /\ cbReturn["Better"] = <<cashbacks[PriorityHandler]>>
       /\ cbReturn["Better"] = cbReturn["Bad"]

\* both versions have returned with isSecure unset and the two later flags
\* set, the handlers returning different values
C11_Witness ==
  /\ cbPc = "done"
  /\ ~isSecure /\ isUnsecure /\ isOldScheme
  /\ cashbacks["getUnSecureCashback"] # cashbacks["getCashbackForOldScheme"]
  /\ cashbacks["getUnSecureCashback"] # cashbacks["getSecureCashback"]
  /\ cbCalls["Better"] = <<"getUnSecureCashback">>

----------------------------------------------------------------------------
(* processLoanPayment and the two runPostLoanPaymentActions *)

PaymentVersions ==
  {"processLoanPayment", "runPostLoanPaymentActions",
   "runPostLoanPaymentActionsDestructured"}

\* the reasons a service call is rejected with
CloseLoanErrors == {"closeLoan refused", "closeLoan timed out"}

CreateNewLoanErrors == {"createNewLoan refused"}

\* PaymentService.closeLoan(loan.loanId) in the first two versions,
\* PaymentService.closeLoan(loanId) after destructuring in the third
closeLoanCall(v) == <<loanArg.loanId>>

\* CoreService.createNewLoan(sum, lenderId) in processLoanPayment,
\* CoreService.createNewLoan(amount, loan.lenderId) in the two others
createNewLoanCall(v) ==
  IF v = "processLoanPayment" THEN <<amountArg, lenderIdArg>>
  ELSE <<amountArg, loanArg.lenderId>>

InitPayment ==
  /\ payVersion \in PaymentVersions
  /\ loanArg \in [loanId : 1..MaxId, lenderId : 1..MaxId]
  /\ amountArg \in 1..MaxAmount
  /\ lenderIdArg \in IF payVersion = "processLoanPayment"
                     THEN 1..MaxId ELSE {0}
  /\ payPc = "entry"
  /\ closeLoan = "notcalled"
  /\ closeLoanArg = << >>
  /\ closeLoanError = ""
  /\ createNewLoan = "notcalled"
  /\ createNewLoanArgs = << >>
  /\ createNewLoanError = ""
  /\ payOutcome = "pending"
  /\ payError = ""
  /\ ScriptIdle
  /\ CashbackIdle
  /\ MutationIdle
  /\ SendIdle

\* the function is called: it runs up to its first await, which starts
\* PaymentService.closeLoan and suspends the function
CallCloseLoan ==
  /\ payPc = "entry"
  /\ closeLoan' = "pending"
  /\ closeLoanArg' = closeLoanCall(payVersion)
  /\ payPc' = "await_close"
  /\ UNCHANGED <<payVersion, loanArg, amountArg, lenderIdArg, closeLoanError,
                 createNewLoan, createNewLoanArgs, createNewLoanError,
                 payOutcome, payError>>
  /\ UNCHANGED <<scriptVars, cashbackVars, mutationVars, sendVars>>

\* the payment service settles the promise of closeLoan either way
CloseLoanSettles ==
  /\ closeLoan = "pending"
  /\ \/ closeLoan' = "fulfilled" /\ UNCHANGED closeLoanError
     \/ \E e \in CloseLoanErrors :
          closeLoan' = "rejected" /\ closeLoanError' = e
  /\ UNCHANGED <<payVersion, loanArg, amountArg, lenderIdArg, payPc,
                 closeLoanArg, createNewLoan, createNewLoanArgs,
                 createNewLoanError, payOutcome, payError>>
  /\ UNCHANGED <<scriptVars, cashbackVars, mutationVars, sendVars>>

ResumeAfterClose_swallow ==
  /\ payPc = "await_close"
  /\ closeLoan \in {"fulfilled", "rejected"}
  /\ createNewLoan' = "pending"
  /\ createNewLoanArgs' = createNewLoanCall(payVersion)
  /\ payPc' = "await_create"
  /\ UNCHANGED <<payOutcome, payError>>
  /\ UNCHANGED <<payVersion, loanArg, amountArg, lenderIdArg,
                 closeLoan, closeLoanArg, closeLoanError, createNewLoanError>>
  /\ UNCHANGED <<scriptVars, cashbackVars, mutationVars, sendVars>>

\* the first await resumes: a rejection is thrown out of the function and
\* rejects its promise, a fulfilment goes on to the second await, which
\* starts CoreService.createNewLoan
ResumeAfterClose ==
  /\ payPc = "await_close"
  /\ closeLoan \in {"fulfilled", "rejected"}
  /\ IF closeLoan = "rejected"
     THEN /\ payOutcome' = "rejected"
          /\ payError' = closeLoanError
          /\ payPc' = "done"
          /\ UNCHANGED <<createNewLoan, createNewLoanArgs>>
     ELSE /\ createNewLoan' = "pending"
          /\ createNewLoanArgs' = createNewLoanCall(payVersion)
          /\ payPc' = "await_create"
          /\ UNCHANGED <<payOutcome, payError>>
  /\ UNCHANGED <<payVersion, loanArg, amountArg, lenderIdArg,
                 closeLoan, closeLoanArg, closeLoanError, createNewLoanError>>
  /\ UNCHANGED <<scriptVars, cashbackVars, mutationVars, sendVars>>

\* the core service settles the promise of createNewLoan either way
CreateNewLoanSettles ==
  /\ createNewLoan = "pending"
  /\ \/ createNewLoan' = "fulfilled" /\ UNCHANGED createNewLoanError
     \/ \E e \in CreateNewLoanErrors :
          createNewLoan' = "rejected" /\ createNewLoanError' = e
  /\ UNCHANGED <<payVersion, loanArg, amountArg, lenderIdArg, payPc,
                 closeLoan, closeLoanArg, closeLoanError, createNewLoanArgs,
                 payOutcome, payError>>
  /\ UNCHANGED <<scriptVars, cashbackVars, mutationVars, sendVars>>

\* the second await resumes: the function ends, or throws the rejection
ResumeAfterCreate ==
  /\ payPc = "await_create"
  /\ createNewLoan \in {"fulfilled", "rejected"}
  /\ IF createNewLoan = "rejected"
     THEN payOutcome' = "rejected" /\ payError' = createNewLoanError
     ELSE payOutcome' = "fulfilled" /\ UNCHANGED payError
  /\ payPc' = "done"
  /\ UNCHANGED <<payVersion, loanArg, amountArg, lenderIdArg,
                 closeLoan, closeLoanArg, closeLoanError,
                 createNewLoan, createNewLoanArgs, createNewLoanError>>
  /\ UNCHANGED <<scriptVars, cashbackVars, mutationVars, sendVars>>

NextPayment ==
  \/ CallCloseLoan
  \/ CloseLoanSettles
  \/ ResumeAfterClose
  \/ CreateNewLoanSettles
  \/ ResumeAfterCreate

SpecPayment == InitPayment /\ [][NextPayment]_vars

\* C12: in each of the three functions createNewLoan has been started only
\* if closeLoan was fulfilled; when closeLoan is rejected createNewLoan is
\* not invoked, the function is either still suspended at its first await or
\* has ended, and once it has ended its promise is rejected with the error
\* closeLoan was rejected with.
C12_CreateOnlyAfterClose ==
  /\ createNewLoan # "notcalled" =>
       closeLoan = "fulfilled" /\ createNewLoanArgs # << >>
  /\ closeLoan = "rejected" =>
       /\ createNewLoan = "notcalled"
       /\ createNewLoanArgs = << >>
       /\ payPc \in {"await_close", "done"}
       /\ payPc = "done" =>
            payOutcome = "rejected" /\ payError = closeLoanError

\* the destructuring version has ended after closeLoan timed out
C12_Witness ==
  /\ payVersion = "runPostLoanPaymentActionsDestructured"
  /\ payPc = "done"
  /\ closeLoan = "rejected"
  /\ closeLoanError = "closeLoan timed out"
  /\ payError = "closeLoan timed out"
  /\ createNewLoan = "notcalled"

----------------------------------------------------------------------------
(* The mutation example *)
(* Numbers are the exact values of the arithmetic: the loan amounts are    *)
(* multiples of 2000, so that the product by 1.05 and the division of the  *)
(* rate by 100 give integers.                                              *)

\* const loan = { loanAmount: 100000, interestRate: 5, tenure: 4 }
LiteralLoan == [loanAmount |-> 100000, interestRate |-> 5, tenure |-> 4]

LoanAmounts == {2000 * n : n \in 0..MaxUnits} \cup {LiteralLoan.loanAmount}

InterestRates == (1..MaxRate) \cup {LiteralLoan.interestRate}

Tenures == (1..MaxTenure) \cup {LiteralLoan.tenure}

\* loan.loanAmount * (loan.interestRate / 100) * loan.tenure
interestOf(l) == (l.loanAmount * l.interestRate * l.tenure) \div 100

\* a call gives the object as the function leaves it and the value returned
getLoanInterestForFederal(l) ==
  [loan |-> l, ret |-> interestOf(l)]

getLoanInterestForICICI_pure(l) ==
  LET scaled == [l EXCEPT !.loanAmount = (@ * 105) \div 100]
  IN [loan |-> l, ret |-> interestOf(scaled)]

\* loan.loanAmount *= 1.05, then the interest of the object so changed
getLoanInterestForICICI(l) ==
  LET scaled == [l EXCEPT !.loanAmount = (@ * 105) \div 100]
  IN [loan |-> scaled, ret |-> interestOf(scaled)]

InitMutation ==
  /\ loan \in [loanAmount : LoanAmounts, interestRate : InterestRates,
               tenure : Tenures]
  /\ loanPassed = NoLoanObject
  /\ mutPc = "entry"
  /\ console = << >>
  /\ ScriptIdle
  /\ CashbackIdle
  /\ PaymentIdle
  /\ SendIdle

\* printLoanInterestForLenders(loan): the object itself is passed
CallPrintLoanInterest ==
  /\ mutPc = "entry"
  /\ loanPassed' = loan
  /\ mutPc' = "federal"
  /\ UNCHANGED <<loan, console>>
  /\ UNCHANGED <<scriptVars, cashbackVars, paymentVars, sendVars>>

\* console.log('Federal:', getLoanInterestForFederal(loan))
PrintFederal ==
  /\ mutPc = "federal"
  /\ LET r == getLoanInterestForFederal(loan)
     IN /\ loan' = r.loan
        /\ console' = Append(console, <<"Federal:", r.ret>>)
  /\ mutPc' = "icici"
  /\ UNCHANGED loanPassed
  /\ UNCHANGED <<scriptVars, cashbackVars, paymentVars, sendVars>>

\* console.log('ICICI:', getLoanInterestForICICI(loan))
PrintICICI ==
  /\ mutPc = "icici"
  /\ LET r == getLoanInterestForICICI(loan)
     IN /\ loan' = r.loan
        /\ console' = Append(console, <<"ICICI:", r.ret>>)
  /\ mutPc' = "done"
  /\ UNCHANGED loanPassed
  /\ UNCHANGED <<scriptVars, cashbackVars, paymentVars, sendVars>>

NextMutation ==
  \/ CallPrintLoanInterest
  \/ PrintFederal
  \/ PrintICICI

SpecMutation == InitMutation /\ [][NextMutation]_vars

\* C13: after getLoanInterestForFederal the loan has every field as passed
\* in and the Federal line shows the interest of the amount passed in; after
\* getLoanInterestForICICI the amount is 1.05 times the amount passed in,
\* the rate and the tenure are as passed in, the Federal line is unchanged,
\* and the loan differs from the one passed in (for the loan of the example,
\* and for every loan whose amount is not 0, which 1.05 leaves at 0).
C13_FederalPureICICIMutates ==
  /\ mutPc = "icici" =>
       /\ loan = loanPassed
       /\ Len(console) = 1
  /\ mutPc \in {"icici", "done"} =>
       /\ console[1][1] = "Federal:"
       /\ 100 * console[1][2] =
            loanPassed.loanAmount * loanPassed.interestRate * loanPassed.tenure
  /\ mutPc = "done" =>
       /\ 100 * loan.loanAmount = 105 * loanPassed.loanAmount
       /\ loan.interestRate = loanPassed.interestRate
       /\ loan.tenure = loanPassed.tenure
       /\ console[2][1] = "ICICI:"
       /\ 100 * console[2][2] = loan.loanAmount * loan.interestRate * loan.tenure
       /\ loanPassed.loanAmount # 0 => loan # loanPassed
       /\ loanPassed = LiteralLoan =>
            /\ loan # loanPassed
            /\ loan.loanAmount = 105000
            /\ console = << <<"Federal:", 20000>>, <<"ICICI:", 21000>> >>

\* the call of the example has returned
C13_Witness ==
  /\ mutPc = "done"
  /\ loanPassed = LiteralLoan
  /\ loan.loanAmount = 105000
  /\ Len(console) = 2

----------------------------------------------------------------------------
(* sendSomeData: the original and the two versions that build the request  *)
(* with buildLoanUpdateRequest                                              *)

SendVersions == {"Bad", "LittleBetter", "Better"}

OldLoans ==
  [uloans : {<<"u-1">>},
   urepledgehistory : {<<"r-1">>},
   netWeight : -1..MaxWeight,
   uLoanIds : {<<"u-1">>},
   scheme : {"scheme-a", "scheme-b"}]

NewLoans ==
  [newunsecureamount : {2000},
   oldunsecureamount : {1000},
   lploanid : {"lp-1"},
   oldschemeid : {"scheme-a"},
   newschemeid : {"scheme-c"},
   pledgecard : {"pledgecard.png"},
   newloandate : {"2021-06-01"},
   printerpledgecardimage : {"", "printer.png"},
   renewalpledgecard : {"", "renewal.png"},
   signedpledgecard : {"", "signed.png"}]

NewSchemes == {[id |-> "scheme-c"]}

\* a string is truthy unless it is empty
Truthy(v) == v # ""

\* ...(cond && obj): the properties of obj when cond holds, none otherwise
Spread(cond, obj) == IF cond THEN obj ELSE EmptyObject

\* isSecure is not defined in the write-up; it is taken as netWeight > 0
isSecureLoan(o) == o.netWeight > 0

\* the eleven properties that all three versions list first
baseProperties(o, n, sch) ==
  [loan |-> n,
   uloans |-> o.uloans,
   newamount |-> n.newunsecureamount,
   oldamount |-> n.oldunsecureamount,
   oldlploanid |-> n.lploanid,
   oldscheme |-> n.oldschemeid,
   newscheme |-> n.newschemeid,
   newschemeobj |-> sch,
   pledgecardimage |-> n.pledgecard,
   repledgedate |-> n.newloandate,
   urepledgehistory |-> o.urepledgehistory]

\* Bad: renewalobj: { ...(newLoan.printerpledgecardimage && {...}), ... }
renewalobjOf(n) ==
  Spread(Truthy(n.printerpledgecardimage),
         [combinedpledgecardimage |-> n.printerpledgecardimage])
  @@ Spread(Truthy(n.renewalpledgecard),
            [renewalpledgecard |-> n.renewalpledgecard])
  @@ Spread(Truthy(n.signedpledgecard),
            [signedpledgecard |-> n.signedpledgecard])

\* Bad: the object literal of sendSomeData
sendSomeDataBadRequest(o, n, sch) ==
  baseProperties(o, n, sch)
  @@ Spread(o.netWeight > 0,
            [uLoanIds |-> o.uLoanIds, unSecureScheme |-> o.scheme])
  @@ [renewalobj |-> renewalobjOf(n)]

\* Little Better: the object literal buildLoanUpdateRequest returns
buildLoanUpdateRequestLittleBetter(o, n, sch) ==
  baseProperties(o, n, sch)
  @@ Spread(o.netWeight > 0,
            [uLoanIds |-> o.uLoanIds, unSecureScheme |-> o.scheme])

\* Object.assign(target, source): the properties of source override
ObjectAssign(target, source) == source @@ target

InitSend ==
  /\ sendVersion \in SendVersions
  /\ oldLoan \in OldLoans
  /\ newLoan \in NewLoans
  /\ newscheme \in NewSchemes
  /\ sendPc = "entry"
  /\ request = EmptyObject
  /\ updateCalls = << >>
  /\ updateStatus = "notcalled"
  /\ ScriptIdle
  /\ CashbackIdle
  /\ PaymentIdle
  /\ MutationIdle

\* the request object is created: by the literal of sendSomeData in Bad, by
\* the literal buildLoanUpdateRequest returns in Little Better, by the
\* literal buildLoanUpdateRequest starts from in Better
BuildRequest ==
  /\ sendPc = "entry"
  /\ request' =
       CASE sendVersion = "Bad" ->
              sendSomeDataBadRequest(oldLoan, newLoan, newscheme)
         [] sendVersion = "LittleBetter" ->
              buildLoanUpdateRequestLittleBetter(oldLoan, newLoan, newscheme)
         [] sendVersion = "Better" ->
              baseProperties(oldLoan, newLoan, newscheme)
  /\ sendPc' = IF sendVersion = "Better" THEN "assign" ELSE "update"
  /\ UNCHANGED <<sendVersion, oldLoan, newLoan, newscheme,
                 updateCalls, updateStatus>>
  /\ UNCHANGED <<scriptVars, cashbackVars, paymentVars, mutationVars>>

\* Better: if (isSecure(oldLoan)) Object.assign(loan, {...}); return loan
AssignSecure ==
  /\ sendPc = "assign"
  /\ request' =
       IF isSecureLoan(oldLoan)
       THEN ObjectAssign(request, [uLoanIds |-> oldLoan.uLoanIds,
                                   unSecureScheme |-> oldLoan.scheme])
       ELSE request
  /\ sendPc' = "update"
  /\ UNCHANGED <<sendVersion, oldLoan, newLoan, newscheme,
                 updateCalls, updateStatus>>
  /\ UNCHANGED <<scriptVars, cashbackVars, paymentVars, mutationVars>>

\* await LoanService.update(loan): the call is made with the request
CallUpdate ==
  /\ sendPc = "update"
  /\ updateCalls' = Append(updateCalls, request)
  /\ updateStatus' = "pending"
  /\ sendPc' = "await_update"
  /\ UNCHANGED <<sendVersion, oldLoan, newLoan, newscheme, request>>
  /\ UNCHANGED <<scriptVars, cashbackVars, paymentVars, mutationVars>>

\* the loan service settles the call either way and sendSomeData ends
UpdateSettles ==
  /\ sendPc = "await_update"
  /\ updateStatus' \in {"fulfilled", "rejected"}
  /\ sendPc' = "done"
  /\ UNCHANGED <<sendVersion, oldLoan, newLoan, newscheme, request,
                 updateCalls>>
  /\ UNCHANGED <<scriptVars, cashbackVars, paymentVars, mutationVars>>

NextSend ==
  \/ BuildRequest
  \/ AssignSecure
  \/ CallUpdate
  \/ UpdateSettles

SpecSend == InitSend /\ [][NextSend]_vars

\* C14: whichever version of sendSomeData is called, the request passed to
\* LoanService.update has the properties and the values of the object the
\* original sendSomeData builds from the same oldLoan, newLoan and
\* newscheme.
C14_SameRequest ==
  updateCalls # << >> =>
    /\ Len(updateCalls) = 1
    /\ DOMAIN updateCalls[1] =
         DOMAIN sendSomeDataBadRequest(oldLoan, newLoan, newscheme)
    /\ updateCalls[1] = sendSomeDataBadRequest(oldLoan, newLoan, newscheme)

====
